---- MODULE Spec2Model ----
(***************************************************************************)
(* A model of the sudoku solver of GabrielTofvesson/sudoku.                *)
(*                                                                         *)
(* The repository holds several snapshots of the same two files.  The      *)
(* model keeps them apart by name:                                         *)
(*   "main"    src/main.c        (driver with speculation + board code     *)
(*                                with region metadata)                    *)
(*   "board"   src/board.c       (board code that scans rows and columns,  *)
(*                                with the exclusion and quad passes)      *)
(*   "header"  src/board.h       (board code from line 146 on: metadata,   *)
(*                                place without refresh)                   *)
(*   "part"    src/unnamed/part_000 (board) + part_001 (driver, no         *)
(*                                speculation)                             *)
(* Every board operation takes the snapshot s it is translated from and,   *)
(* where the code has #ifdef OPTIMIZE, the build flag opt.                 *)
(***************************************************************************)
EXTENDS Integers, Sequences, FiniteSets, TLC

Values == 0 .. 8
Coords == 0 .. 8
Cells == 0 .. 80

Snapshots == {"main", "board", "header", "part"}
MetaSnapshots == {"main", "header"}

(* ------------------------------------------------------------------ *)
(* Layout: BOARD_ELEM, TO_QUAD, BOARD_QUAD                             *)
(* ------------------------------------------------------------------ *)

BOARD_ELEM(x, y) == (y * 9) + x
ElemX(i) == i % 9
ElemY(i) == i \div 9

\* TO_QUAD(pos): first coordinate of the quadrant holding pos (the code adds
\* offsets 0..2 to it and compares it with 0, 3, 6).
TO_QUAD(pos) == (pos \div 3) * 3

\* BOARD_QUAD(board, x, y): index of the quadrant metadata of cell (x, y).
BOARD_QUAD(x, y) == ((y \div 3) * 3) + (x \div 3)

\* Width of the complexity bit field of struct board_element.
ComplexityBits == 4
ComplexityMod == 2 ^ ComplexityBits
\* Width of the value bit field of struct board_element (value : 4).
ValueBits == 4
ValueMod == 2 ^ ValueBits

(* ------------------------------------------------------------------ *)
(* Control flow: calls by value and for loops                          *)
(* ------------------------------------------------------------------ *)

\* F applied to the value of v: C evaluates an argument before the call.
Strict(F(_), v) == CHOOSE r \in {F(w) : w \in {v}} : TRUE

\* for (i = lo; i <= hi; ++i) acc = body (acc, i): the body applied for
\* i = lo, lo + 1, ..., hi in this order, written as the loop over the first
\* half of the range followed by the loop over the second half.
RECURSIVE For(_, _, _, _)
For(body(_, _), acc, lo, hi) ==
  IF lo > hi THEN acc
  ELSE IF lo = hi THEN body(acc, lo)
  ELSE Strict(LAMBDA a : For(body, a, ((lo + hi) \div 2) + 1, hi),
              For(body, acc, lo, (lo + hi) \div 2))

(* ------------------------------------------------------------------ *)
(* board_init                                                          *)
(* ------------------------------------------------------------------ *)

\* memset (board, 0, sizeof board->elements)
ZeroElem == [has_value |-> FALSE, value |-> 0, potential |-> {}, complexity |-> 0]

\* defval of the "header" snapshot: potential = 0x1FF, complexity = 9
DefvalElem == [has_value |-> FALSE, value |-> 15, potential |-> Values, complexity |-> 9]

\* A C array: the table of its entries (f tabulated, entry by entry).
Array(f) == f @@ <<>>

meta_init == Array([r \in 0 .. 8 |-> {}])

board_init(s) ==
  [ elements   |-> Array([i \in Cells |-> IF s = "header" THEN DefvalElem ELSE ZeroElem]),
    complexity |-> 9,
    meta_row   |-> meta_init,
    meta_col   |-> meta_init,
    meta_quad  |-> meta_init ]

(* ------------------------------------------------------------------ *)
(* Bounds checks and accessors                                         *)
(* ------------------------------------------------------------------ *)

\* "part" has no OPTIMIZE switch; the other snapshots return true under it.
is_valid_value(s, opt, value) ==
  IF opt /\ s # "part" THEN TRUE ELSE value >= 0 /\ value < 9

board_has_value(b, x, y) == b.elements[BOARD_ELEM(x, y)].has_value

board_get_value(b, x, y) == b.elements[BOARD_ELEM(x, y)].value

board_is_marked(b, x, y, value) == value \in b.elements[BOARD_ELEM(x, y)].potential

(* ------------------------------------------------------------------ *)
(* Region metadata                                                     *)
(* ------------------------------------------------------------------ *)

meta_has_value(marked, value) == value \in marked

meta_set_value(marked, value) == marked \cup {value}

\* The marked set board_meta_row_refresh (board, y) recomputes.
board_meta_row_refresh(b, y) ==
  {b.elements[BOARD_ELEM(x, y)].value : x \in {c \in Coords : board_has_value(b, c, y)}}

\* The marked set board_meta_col_refresh (board, x) recomputes.
board_meta_col_refresh(b, x) ==
  {b.elements[BOARD_ELEM(x, y)].value : y \in {c \in Coords : board_has_value(b, x, c)}}

\* The marked set board_meta_quad_refresh computes from the cells of quadrant
\* (qx, qy), qx, qy in 0..2.
board_meta_quad_refresh(b, qx, qy) ==
  {b.elements[BOARD_ELEM((qx * 3) + ox, (qy * 3) + oy)].value :
     <<ox, oy>> \in {p \in (0 .. 2) \X (0 .. 2) :
                       board_has_value(b, (qx * 3) + p[1], (qy * 3) + p[2])}}

board_meta_can_set(b, x, y, value) ==
  ~ ( meta_has_value(b.meta_row[y], value)
      \/ meta_has_value(b.meta_col[x], value)
      \/ meta_has_value(b.meta_quad[BOARD_QUAD(x, y)], value) )

(* ------------------------------------------------------------------ *)
(* board_can_place_value ("board", "part"): rows and columns only      *)
(* ------------------------------------------------------------------ *)

board_can_place_value(b, x, y, value) ==
  /\ \A compare_x \in Coords :
        compare_x = x
        \/ ~ (board_has_value(b, compare_x, y) /\ board_get_value(b, compare_x, y) = value)
  /\ \A compare_y \in Coords :
        compare_y = y
        \/ ~ (board_has_value(b, x, compare_y) /\ board_get_value(b, x, compare_y) = value)

\* The placement test board_place and board_place_speculative use.
can_place(s, b, x, y, value) ==
  IF s \in MetaSnapshots THEN board_meta_can_set(b, x, y, value)
                         ELSE board_can_place_value(b, x, y, value)

(* ------------------------------------------------------------------ *)
(* board_set                                                           *)
(* ------------------------------------------------------------------ *)

\* board_set reaches ERROR (abort): invalid value, or, in the snapshots with
\* metadata built without OPTIMIZE, the ASSERT on board_meta_can_set.
board_set_aborts(s, opt, b, x, y, value) ==
  \/ ~ is_valid_value(s, opt, value)
  \/ s \in MetaSnapshots /\ ~ opt /\ ~ board_meta_can_set(b, x, y, value)

board_set(b, x, y, value) ==
  [b EXCEPT !.elements[BOARD_ELEM(x, y)].has_value = TRUE,
            !.elements[BOARD_ELEM(x, y)].value = value % ValueMod]

(* ------------------------------------------------------------------ *)
(* board_mark / board_unmark                                           *)
(* ------------------------------------------------------------------ *)

\* ASSERT (! board_has_value (board, x, y), ...) of "main" and "header".
mark_aborts(s, opt, b, x, y, value) ==
  \/ ~ is_valid_value(s, opt, value)
  \/ s \in MetaSnapshots /\ ~ opt /\ board_has_value(b, x, y)

board_mark(s, b, x, y, value) ==
  LET i == BOARD_ELEM(x, y)
      elem == b.elements[i]
  IN  IF ~ board_is_marked(b, x, y, value)
      THEN [b EXCEPT !.elements[i].potential = elem.potential \cup {value},
                     !.elements[i].complexity = (elem.complexity + 1) % ComplexityMod]
      ELSE b

\* The element after "elem->potential ^= (1 << value); --(elem->complexity)",
\* done only if the value is marked.
elem_unmark(elem, value) ==
  IF value \in elem.potential
  THEN [elem EXCEPT !.potential = @ \ {value},
                    !.complexity = (@ + ComplexityMod - 1) % ComplexityMod]
  ELSE elem

\* board_unmark without the test board_is_marked: the bit is flipped and the
\* complexity lowered on every call.
board_unmark_always(s, b, x, y, value) ==
  LET i == BOARD_ELEM(x, y)
      old == b.elements[i]
      elem == [old EXCEPT !.potential = IF value \in @ THEN @ \ {value} ELSE @ \cup {value},
                          !.complexity = (@ + ComplexityMod - 1) % ComplexityMod]
  IN  [b EXCEPT !.elements[i] = elem,
                !.complexity = IF s \in {"board", "part"} /\ elem.complexity < @
                               THEN elem.complexity ELSE @]

\* "board" and "part" also lower board->complexity to the new complexity.
board_unmark(s, b, x, y, value) ==
  LET i == BOARD_ELEM(x, y)
      elem == elem_unmark(b.elements[i], value)
  IN  IF board_is_marked(b, x, y, value)
      THEN [b EXCEPT !.elements[i] = elem,
                     !.complexity = IF s \in {"board", "part"} /\ elem.complexity < @
                                    THEN elem.complexity ELSE @]
      ELSE b

(* ------------------------------------------------------------------ *)
(* board_is_valid                                                      *)
(* ------------------------------------------------------------------ *)

board_is_valid(s, b) ==
  CASE s = "main" ->
         \A y \in Coords, x \in Coords :
            ~ ( board_has_value(b, x, y)
                /\ ~ board_meta_can_set(b, x, y, b.elements[BOARD_ELEM(x, y)].value) )
    [] s = "header" ->
         \A y \in Coords, x \in Coords :
            ~ ( ~ board_has_value(b, x, y)
                /\ b.elements[BOARD_ELEM(x, y)].potential = {} )
    [] OTHER ->
         \A y \in Coords, x \in Coords :
            ~ ( board_has_value(b, x, y)
                /\ ~ board_can_place_value(b, x, y, b.elements[BOARD_ELEM(x, y)].value) )

(* ------------------------------------------------------------------ *)
(* board_update_marks                                                  *)
(* ------------------------------------------------------------------ *)

\* "Count marked bits": "part" copies the 9-bit field into an unsigned char
\* first, which drops bit 8.
count_marked_bits(s, potential) ==
  IF s = "part" THEN Cardinality(potential \cap (0 .. 7))
                ELSE Cardinality(potential)

\* The values board_update_marks collects before inverting (a 9-bit field).
collected_marks(s, b, x, y) ==
  IF s \in MetaSnapshots
  THEN (b.meta_quad[BOARD_QUAD(x, y)] \cup b.meta_row[y] \cup b.meta_col[x]) \cap Values
  ELSE ( {board_get_value(b, check_x, y) :
            check_x \in {c \in Coords : c # x /\ board_has_value(b, c, y)}}
         \cup
         {board_get_value(b, x, check_y) :
            check_y \in {c \in Coords : c # y /\ board_has_value(b, x, c)}} ) \cap Values

\* board_update_marks without "Mark all values as impossible": the old
\* candidates are or-ed with the collected values before the inversion and
\* the count goes on from the old complexity.
board_update_marks_noreset(s, b, x, y) ==
  LET i == BOARD_ELEM(x, y)
      potential == Values \ (b.elements[i].potential \cup collected_marks(s, b, x, y))
      complexity == (b.elements[i].complexity + count_marked_bits(s, potential))
                      % ComplexityMod
  IN  [b EXCEPT !.elements[i].potential = potential,
                !.elements[i].complexity = complexity,
                !.complexity = IF s \in {"board", "part"} /\ complexity < b.complexity
                               THEN complexity ELSE b.complexity]

board_update_marks(s, b, x, y) ==
  LET i == BOARD_ELEM(x, y)
      potential == Values \ collected_marks(s, b, x, y)
      complexity == count_marked_bits(s, potential)
  IN  [b EXCEPT !.elements[i].potential = potential,
                !.elements[i].complexity = complexity,
                !.complexity = IF s \in {"board", "part"} /\ complexity < b.complexity
                               THEN complexity ELSE b.complexity]

\* The first loop of board_update_all_marks: for y, for x, board_update_marks
\* on every unset cell.
update_marks_loop(s, b) ==
  For(LAMBDA acc, i : IF acc.elements[i].has_value THEN acc
                      ELSE board_update_marks(s, acc, ElemX(i), ElemY(i)),
      b, 0, 80)

(* ------------------------------------------------------------------ *)
(* Exclusion pass ("board"): board_can_quad_set_value,                 *)
(* board_update_marks_by_excl                                          *)
(* ------------------------------------------------------------------ *)

\* quad_target_holds that looks at unset cells only: a decided cell that holds
\* the value does not count.
quad_target_holds_unset(b, target_x, target_y, value) ==
  ~ board_has_value(b, target_x, target_y) /\ board_is_marked(b, target_x, target_y, value)

\* "Check if a quadrant can contain the given value" at one target cell.
quad_target_holds(b, target_x, target_y, value) ==
  \/ board_has_value(b, target_x, target_y) /\ board_get_value(b, target_x, target_y) = value
  \/ ~ board_has_value(b, target_x, target_y) /\ board_is_marked(b, target_x, target_y, value)

board_can_quad_set_value(b, x, y, value) ==
  LET quad_x == TO_QUAD(x)
      quad_y == TO_QUAD(y)
      simp_x == x % 3
      simp_y == y % 3
  IN  /\ \A base_x \in {0, 3, 6} :
            base_x = quad_x
            \/ \E check_y \in (0 .. 2) \ {simp_y}, check_x \in 0 .. 2 :
                  quad_target_holds(b, base_x + check_x, quad_y + check_y, value)
      /\ \A base_y \in {0, 3, 6} :
            base_y = quad_y
            \/ \E check_x \in (0 .. 2) \ {simp_x}, check_y \in 0 .. 2 :
                  quad_target_holds(b, quad_x + check_x, base_y + check_y, value)

\* The candidates board_update_marks_by_excl removes from (x, y); the cached
\* complexity of the element is not written.
excl_removed(b, x, y) ==
  {value \in b.elements[BOARD_ELEM(x, y)].potential :
     ~ board_can_quad_set_value(b, x, y, value)}

board_update_marks_by_excl(b, x, y) ==
  LET i == BOARD_ELEM(x, y)
      removed == excl_removed(b, x, y)
  IN  [board   |-> [b EXCEPT !.elements[i].potential = b.elements[i].potential \ removed],
       changed |-> removed # {}]

\* "Update marks by exclusion analysis": for y, for x, every unset cell;
\* acc is [board, changed].
excl_pass(b) ==
  For(LAMBDA acc, i :
        IF acc.board.elements[i].has_value THEN acc
        ELSE LET r == board_update_marks_by_excl(acc.board, ElemX(i), ElemY(i))
             IN  [board |-> r.board, changed |-> acc.changed \/ r.changed],
      [board |-> b, changed |-> FALSE], 0, 80)

(* ------------------------------------------------------------------ *)
(* Quad pass ("board"): board_count_quad_potentials,                   *)
(* board_update_marks_by_quad                                          *)
(* ------------------------------------------------------------------ *)

\* Cells of the quadrant of (x, y) in scan order (check_y outer, check_x inner).
quad_cells(x, y) ==
  [k \in 1 .. 9 |->
     BOARD_ELEM(TO_QUAD(x) + ((k - 1) % 3), TO_QUAD(y) + ((k - 1) \div 3))]

\* result of board_count_quad_potentials: is_set, and unique as a cell index
\* or -1 for NULL.
board_count_quad_potentials(b, x, y, value) ==
  LET cells == quad_cells(x, y)
      is_set == \E k \in 1 .. 9 :
                   b.elements[cells[k]].has_value /\ b.elements[cells[k]].value = value
      marked == {k \in 1 .. 9 :
                   ~ b.elements[cells[k]].has_value /\ value \in b.elements[cells[k]].potential}
  IN  [is_set |-> is_set,
       count  |-> IF is_set THEN 1 ELSE Cardinality(marked),
       unique |-> IF ~ is_set /\ Cardinality(marked) = 1
                  THEN cells[CHOOSE k \in marked : TRUE] ELSE -1]

\* board_update_marks_by_quad with the shift one too far, 1 << (value + 1);
\* bit 9 falls out of the 9-bit field.
board_update_marks_by_quad_shifted(b, x, y) ==
  For(LAMBDA acc, value :
        LET result == board_count_quad_potentials(acc.board, x, y, value)
            shifted == {value + 1} \cap Values
        IN  IF ~ result.is_set /\ result.unique # -1
               /\ acc.board.elements[result.unique].potential # shifted
            THEN [board   |-> [acc.board EXCEPT !.elements[result.unique].potential = shifted,
                                                !.elements[result.unique].complexity = 1,
                                                !.complexity = 1],
                  changed |-> TRUE]
            ELSE acc,
      [board |-> b, changed |-> FALSE], 0, 8)

\* for each value: a value that only one unset cell of the quadrant can take
\* becomes the only candidate of that cell; acc is [board, changed].
board_update_marks_by_quad(b, x, y) ==
  For(LAMBDA acc, value :
        LET result == board_count_quad_potentials(acc.board, x, y, value)
        IN  IF ~ result.is_set /\ result.unique # -1
               /\ acc.board.elements[result.unique].potential # {value}
            THEN [board   |-> [acc.board EXCEPT !.elements[result.unique].potential = {value},
                                                !.elements[result.unique].complexity = 1,
                                                !.complexity = 1],
                  changed |-> TRUE]
            ELSE acc,
      [board |-> b, changed |-> FALSE], 0, 8)

\* "Update marks by quad potential analysis": quadrants y = 0, 3, 6; x = 0, 3, 6.
quad_pass(b, changed) ==
  For(LAMBDA acc, q :
        LET r == board_update_marks_by_quad(acc.board, (q % 3) * 3, (q \div 3) * 3)
        IN  [board |-> r.board, changed |-> r.changed \/ acc.changed],
      [board |-> b, changed |-> changed], 0, 8)

\* The do ... while (changed) loop of board_update_all_marks in "board".
RECURSIVE marks_fixpoint(_)
marks_fixpoint(b) ==
  Strict(LAMBDA q : IF q.changed THEN marks_fixpoint(q.board) ELSE q.board,
         Strict(LAMBDA e : quad_pass(e.board, e.changed), excl_pass(b)))

(* ------------------------------------------------------------------ *)
(* board_update_all_marks                                              *)
(* ------------------------------------------------------------------ *)

\* "main" returns right after the first loop; "header" and "part" have only
\* the first loop.
board_update_all_marks(s, b) ==
  IF s = "board" THEN marks_fixpoint(update_marks_loop(s, b))
                 ELSE update_marks_loop(s, b)

(* ------------------------------------------------------------------ *)
(* board_refresh_complexity                                            *)
(* ------------------------------------------------------------------ *)

\* The scan of board_refresh_complexity: for y, for x.  acc is [board, ret,
\* done]; done is set by a return from inside the loops.
refresh_cell(acc, x, y) ==
  LET b == acc.board
      elem == b.elements[BOARD_ELEM(x, y)]
  IN  IF ~ board_has_value(b, x, y) /\ elem.complexity < b.complexity
      THEN IF elem.complexity = 0
           THEN [board |-> b, ret |-> FALSE, done |-> TRUE]
           ELSE [board |-> [b EXCEPT !.complexity = elem.complexity],
                 ret   |-> TRUE,
                 done  |-> elem.complexity = 1]
      ELSE acc

\* The end of board_refresh_complexity for the scan result r: a return from
\* inside the loops, or "if there are no complex board elements, board is
\* solved".
refresh_end(r) ==
  IF r.done THEN [board |-> r.board, ret |-> r.ret]
  ELSE [board |-> [r.board EXCEPT !.complexity = IF @ = 10 THEN 0 ELSE @],
        ret   |-> TRUE]

\* board->complexity = 10 and the scan.
refresh_scan(b) ==
  refresh_end(
    For(LAMBDA acc, i : IF acc.done THEN acc ELSE refresh_cell(acc, ElemX(i), ElemY(i)),
        [board |-> [b EXCEPT !.complexity = 10], ret |-> TRUE, done |-> FALSE],
        0, 80))

\* "main" and "board" recompute all marks first; "header" only scans.
board_refresh_complexity(s, b) ==
  Strict(LAMBDA marked : refresh_scan(marked),
         IF s \in {"main", "board"} THEN board_update_all_marks(s, b) ELSE b)

(* ------------------------------------------------------------------ *)
(* board_place, board_place_speculative, board_copy                    *)
(* ------------------------------------------------------------------ *)

\* board_unmark on cell (x, y) if it is unset.
unmark_unset(s, b, x, y, value) ==
  IF ~ board_has_value(b, x, y) THEN board_unmark(s, b, x, y, value) ELSE b

\* The unmark loops of board_place: "Unmark x-axis", "Unmark y-axis" and
\* "Update quad" (which "part" does not have).
unmark_all(s, b, x, y, value) ==
  For(LAMBDA acc, k :
        IF (TO_QUAD(x) + (k % 3)) # x \/ (TO_QUAD(y) + (k \div 3)) # y
        THEN unmark_unset(s, acc, TO_QUAD(x) + (k % 3), TO_QUAD(y) + (k \div 3), value)
        ELSE acc,
      For(LAMBDA acc, unmark_y :
            IF unmark_y # y THEN unmark_unset(s, acc, x, unmark_y, value) ELSE acc,
          For(LAMBDA acc, unmark_x :
                IF unmark_x # x THEN unmark_unset(s, acc, unmark_x, y, value) ELSE acc,
              b, 0, 8),
          0, 8),
      0, IF s = "part" THEN -1 ELSE 8)

\* "Update metadata" of board_place.
place_meta(b, x, y, value) ==
  [b EXCEPT !.meta_quad[BOARD_QUAD(x, y)] = meta_set_value(@, value),
            !.meta_row[y] = meta_set_value(@, value),
            !.meta_col[x] = meta_set_value(@, value)]

\* What board_place returns after board_refresh_complexity returned r.
place_refreshed(r) == [board |-> r.board, ret |-> r.ret, abort |-> FALSE]

\* board_place after its unmark loops, which left the board unmarked.
place_unmarked(s, opt, unmarked, x, y, value) ==
  CASE s = "main" ->
         \* metadata first, then board_set, then refresh
         Strict(LAMBDA m :
                  IF board_set_aborts(s, opt, m, x, y, value)
                  THEN [board |-> m, ret |-> FALSE, abort |-> TRUE]
                  ELSE place_refreshed(
                         board_refresh_complexity(s, board_set(m, x, y, value))),
                place_meta(unmarked, x, y, value))
    [] s = "header" ->
         \* board_set first, then metadata; no refresh
         IF board_set_aborts(s, opt, unmarked, x, y, value)
         THEN [board |-> unmarked, ret |-> FALSE, abort |-> TRUE]
         ELSE [board |-> place_meta(board_set(unmarked, x, y, value), x, y, value),
               ret |-> TRUE, abort |-> FALSE]
    [] s = "board" ->
         place_refreshed(board_refresh_complexity(s, board_set(unmarked, x, y, value)))
    [] OTHER ->
         [board |-> board_set(unmarked, x, y, value), ret |-> TRUE, abort |-> FALSE]

\* board_place: the board it leaves, its return value, and whether it ran
\* into ERROR (abort).
board_place(s, opt, b, x, y, value) ==
  IF ~ is_valid_value(s, opt, value)
  THEN [board |-> b, ret |-> FALSE, abort |-> TRUE]
  ELSE IF ~ can_place(s, b, x, y, value)
  THEN [board |-> b, ret |-> FALSE, abort |-> FALSE]
  ELSE Strict(LAMBDA unmarked : place_unmarked(s, opt, unmarked, x, y, value),
              unmark_all(s, b, x, y, value))

\* board_copy with a size one element short: the last element of the target
\* is not written (it is then as calloc would leave it).
board_copy_short(board_from) == [board_from EXCEPT !.elements[80] = ZeroElem]

board_copy(board_from) == board_from

(* ------------------------------------------------------------------ *)
(* Driver: board file, copy_to_board                                   *)
(* ------------------------------------------------------------------ *)

DigitChars == <<"0", "1", "2", "3", "4", "5", "6", "7", "8", "9">>

is_valid_def(def) == def = " " \/ \E d \in 1 .. 10 : DigitChars[d] = def

\* Width of element_value (unsigned char).
ElementValueBits == 8

\* data[i - 1] - '0' - 1 passed as element_value.
def_value(def) ==
  LET digit == (CHOOSE d \in 1 .. 10 : DigitChars[d] = def) - 1
  IN  ((digit - 1) + (2 ^ ElementValueBits)) % (2 ^ ElementValueBits)

\* load_board_file returns the mapped data: every character that is not a
\* row terminator (every 10th) is a valid definition.  data is indexed 1..89.
load_board_file(data) ==
  \A i \in 1 .. 89 : (i % 10) = 0 \/ is_valid_def(data[i])

\* copy_to_board: the board, and whether board_set ran into ERROR.
copy_to_board(s, opt, data) ==
  For(LAMBDA acc, i :
        IF acc.abort \/ (i % 10) = 0 \/ data[i] = " " THEN acc
        ELSE LET x == (i % 10) - 1
                 y == i \div 10
                 value == def_value(data[i])
             IN  IF board_set_aborts(s, opt, acc.board, x, y, value)
                 THEN [acc EXCEPT !.abort = TRUE]
                 ELSE [acc EXCEPT !.board = board_set(acc.board, x, y, value)],
      [board |-> board_init(s), abort |-> FALSE], 1, 89)

(* ------------------------------------------------------------------ *)
(* Driver: boards_table, first_potential_value, simplify               *)
(* ------------------------------------------------------------------ *)

DEFAULT_DEPTH == 10
DEPTH_INCREMENT == 3

\* A board fresh from malloc: its contents are indeterminate and it is
\* written by board_copy before anything reads it.
malloc_board ==
  [elements |-> <<>>, complexity |-> 0, meta_row |-> <<>>, meta_col |-> <<>>,
   meta_quad |-> <<>>]

\* The table before main assigns to it: max_depth is set to 0 by main.
empty_table == [board_specs |-> <<>>, max_depth |-> 0]

\* tables_ensure_depth that allocates every board of the grown table anew
\* (the loop starts at 0).
tables_ensure_depth_fresh(board_spec, depth) ==
  IF board_spec.max_depth <= depth
  THEN LET new_max == IF board_spec.max_depth = 0
                      THEN DEFAULT_DEPTH
                      ELSE board_spec.max_depth + DEPTH_INCREMENT
       IN  [board_specs |-> Array([l \in 0 .. new_max - 1 |-> malloc_board]),
            max_depth |-> new_max]
  ELSE board_spec

tables_ensure_depth(board_spec, depth) ==
  IF board_spec.max_depth <= depth
  THEN LET new_max == IF board_spec.max_depth = 0
                      THEN DEFAULT_DEPTH
                      ELSE board_spec.max_depth + DEPTH_INCREMENT
       IN  [board_specs |->
              Array([l \in 0 .. new_max - 1 |->
                       IF l < board_spec.max_depth THEN board_spec.board_specs[l]
                                                   ELSE malloc_board]),
            max_depth |-> new_max]
  ELSE board_spec

\* first_potential_value: lowest marked value; "main" reports an empty
\* potential through *error, "part" aborts on it.
first_potential_value(potential) ==
  [error |-> potential = {},
   value |-> IF potential = {} THEN 0
             ELSE CHOOSE v \in potential : \A w \in potential : v <= w]

\* board_place_speculative of "main": the duplicate, whether NULL is
\* returned, and whether board_place ran into ERROR.
board_place_speculative(s, opt, b, board_duplicate, x, y, value) ==
  IF ~ is_valid_value(s, opt, value)
  THEN [board_duplicate |-> board_duplicate, null |-> TRUE, abort |-> TRUE]
  ELSE IF ~ can_place(s, b, x, y, value)
  THEN [board_duplicate |-> board_duplicate, null |-> TRUE, abort |-> FALSE]
  ELSE Strict(LAMBDA r : [board_duplicate |-> r.board, null |-> ~ r.ret, abort |-> r.abort],
              board_place(s, opt, board_copy(b), x, y, value))

\* One pass of the for y / for x loops inside "while (board->complexity ==
\* 1)": every unset cell of complexity 1 gets its first potential value.
\* status: "run" (pass done), "error" (return false of "main"), "abort".
sweep_pass(s, opt, b) ==
  For(LAMBDA acc, i :
        LET elem == acc.board.elements[i]
            first == first_potential_value(elem.potential)
        IN  IF acc.status # "run" \/ elem.has_value \/ elem.complexity # 1 THEN acc
            ELSE IF first.error
            THEN [acc EXCEPT !.status = IF s = "part" THEN "abort" ELSE "error"]
            ELSE Strict(LAMBDA r : [board  |-> r.board,
                                    status |-> IF r.abort THEN "abort" ELSE "run"],
                        board_place(s, opt, acc.board, ElemX(i), ElemY(i), first.value)),
      [board |-> b, status |-> "run"], 0, 80)

\* The speculation loops of simplify run over (y, x, value); n numbers the
\* iterations in loop order.
TrialX(n) == (n \div 9) % 9
TrialY(n) == n \div 81
TrialValue(n) == n % 9
TrialEnd == 729

\* "Find a simplest element on the board"
is_simplest(b, x, y) ==
  ~ board_has_value(b, x, y)
  /\ b.elements[BOARD_ELEM(x, y)].complexity = b.complexity

\* Iteration n reaches board_place_speculative.
is_trial(b, n) ==
  /\ is_simplest(b, TrialX(n), TrialY(n))
  /\ TrialValue(n) \in b.elements[BOARD_ELEM(TrialX(n), TrialY(n))].potential

\* The first iteration from n on that reaches board_place_speculative, or
\* TrialEnd.
next_trial(b, n) ==
  LET trials == {m \in n .. (TrialEnd - 1) : is_trial(b, m)}
  IN  IF trials = {} THEN TrialEnd
      ELSE CHOOSE m \in trials : \A k \in trials : m <= k

(* ------------------------------------------------------------------ *)
(* State                                                               *)
(* ------------------------------------------------------------------ *)

VARIABLES
  snapshot,   \* which snapshot of the code runs
  optimize,   \* built with -DOPTIMIZE
  board,      \* the board the calls of SpecBoard work on
  prev,       \* board before the last call
  calls,      \* the calls made since board_init, each [op, x, y, value, ret]
  aborted,    \* the process ran into ERROR / abort()
  script,     \* placements still to be made by the set-up of SpecBoard
  ops,        \* number of free calls made after the set-up
  pc,         \* position of main
  data,       \* the 89 bytes of the board file, indexed 1..89
  boards,     \* struct boards_table: [board_specs, max_depth]
  stack,      \* the running calls of simplify, innermost last
  valid,      \* what board_is_valid returned last in main
  passes      \* parity of the number of passes "while (board->complexity == 1)" made

api_vars == <<board, prev, calls, script, ops>>
driver_vars == <<pc, data, boards, stack, valid, passes>>
vars == <<snapshot, optimize, aborted, api_vars, driver_vars>>

(* ------------------------------------------------------------------ *)
(* SpecBoard: calls of the board interface, starting from board_init   *)
(* ------------------------------------------------------------------ *)

\* Number of free calls after the set-up placements.
MaxOps == 2

ProbeCells == {<<0, 0>>, <<1, 1>>, <<1, 0>>}
ProbeValues == {4, 8}

\* Set-up: row 0 gets 0..6 at x = 2..8, then 7 and 8 go into column 1 and 7
\* into column 0, which leaves (0,0) with one candidate and (1,0) with none.
ScriptRowFull ==
  << <<2, 0, 0>>, <<3, 0, 1>>, <<4, 0, 2>>, <<5, 0, 3>>, <<6, 0, 4>>,
     <<7, 0, 5>>, <<8, 0, 6>>, <<1, 3, 7>>, <<1, 6, 8>>, <<0, 6, 7>> >>

\* Set-up: 4 in row 1 outside the middle quadrant, row 2 of the middle
\* quadrant decided, so 4 in the middle quadrant must go to row 0.
ScriptPointing ==
  << <<6, 1, 4>>, <<3, 2, 0>>, <<4, 2, 1>>, <<5, 2, 2>> >>

\* Set-up: 4 in rows 1 and 2 and in columns 1 and 2, each outside the first
\* quadrant, so (0,0) is the only cell of the first quadrant that can take 4;
\* 5 in row 0, so (0,0) cannot take 5.
ScriptHidden ==
  << <<3, 1, 4>>, <<6, 2, 4>>, <<1, 3, 4>>, <<2, 6, 4>>, <<5, 0, 5>> >>

Scripts == {<<>>, ScriptRowFull, ScriptPointing, ScriptHidden}

Call(op, x, y, value, ret) == [op |-> op, x |-> x, y |-> y, value |-> value, ret |-> ret]

\* OPTIMIZE removes the ASSERTs of the snapshots with metadata; in "board" it
\* only removes bounds checks, which every call made here passes, and "part"
\* has no such switch.  After a set-up script one call less is made.
InitBoard ==
  /\ snapshot \in Snapshots
  /\ optimize \in (IF snapshot \in MetaSnapshots THEN BOOLEAN ELSE {FALSE})
  /\ board = board_init(snapshot)
  /\ prev = board
  /\ calls = <<Call("board_init", 0, 0, 0, TRUE)>>
  /\ aborted = FALSE
  /\ script \in Scripts
  /\ ops = IF script = <<>> THEN 0 ELSE 1
  /\ pc = "api" /\ data = <<>> /\ boards = empty_table /\ stack = <<>> /\ valid = "none"
  /\ passes = 0

\* The last call made.
call == calls[Len(calls)]

Free == ~ aborted /\ script = <<>> /\ ops < MaxOps

DoPlace(x, y, value) ==
  \E r \in {board_place(snapshot, optimize, board, x, y, value)} :
      /\ board' = r.board
      /\ prev' = board
      /\ calls' = Append(calls, Call("board_place", x, y, value, r.ret))
      /\ aborted' = r.abort

ApiSetup ==
  /\ ~ aborted /\ script # <<>>
  /\ DoPlace(Head(script)[1], Head(script)[2], Head(script)[3])
  /\ script' = Tail(script)
  /\ UNCHANGED <<snapshot, optimize, ops, driver_vars>>

ApiPlace ==
  /\ Free
  /\ \E c \in ProbeCells, value \in ProbeValues : DoPlace(c[1], c[2], value)
  /\ ops' = ops + 1
  /\ UNCHANGED <<snapshot, optimize, script, driver_vars>>

ApiSet ==
  /\ Free
  /\ \E c \in ProbeCells, value \in ProbeValues :
        /\ aborted' = board_set_aborts(snapshot, optimize, board, c[1], c[2], value)
        /\ board' = IF aborted' THEN board ELSE board_set(board, c[1], c[2], value)
        /\ calls' = Append(calls, Call("board_set", c[1], c[2], value, TRUE))
  /\ prev' = board
  /\ ops' = ops + 1
  /\ UNCHANGED <<snapshot, optimize, script, driver_vars>>

ApiMark ==
  /\ Free
  /\ \E c \in ProbeCells, value \in ProbeValues :
        /\ aborted' = mark_aborts(snapshot, optimize, board, c[1], c[2], value)
        /\ board' = IF aborted' THEN board
                    ELSE board_mark(snapshot, board, c[1], c[2], value)
        /\ calls' = Append(calls, Call("board_mark", c[1], c[2], value, TRUE))
  /\ prev' = board
  /\ ops' = ops + 1
  /\ UNCHANGED <<snapshot, optimize, script, driver_vars>>

ApiUnmark ==
  /\ Free
  /\ \E c \in ProbeCells, value \in ProbeValues :
        /\ aborted' = mark_aborts(snapshot, optimize, board, c[1], c[2], value)
        /\ board' = IF aborted' THEN board
                    ELSE board_unmark(snapshot, board, c[1], c[2], value)
        /\ calls' = Append(calls, Call("board_unmark", c[1], c[2], value, TRUE))
  /\ prev' = board
  /\ ops' = ops + 1
  /\ UNCHANGED <<snapshot, optimize, script, driver_vars>>

ApiUpdateAllMarks ==
  /\ Free
  /\ board' = board_update_all_marks(snapshot, board)
  /\ prev' = board
  /\ calls' = Append(calls, Call("board_update_all_marks", 0, 0, 0, TRUE))
  /\ ops' = ops + 1
  /\ UNCHANGED <<snapshot, optimize, aborted, script, driver_vars>>

\* part_000 has no board_refresh_complexity.
ApiRefreshComplexity ==
  /\ Free /\ snapshot # "part"
  /\ \E r \in {board_refresh_complexity(snapshot, board)} :
         /\ board' = r.board
         /\ calls' = Append(calls, Call("board_refresh_complexity", 0, 0, 0, r.ret))
  /\ prev' = board
  /\ ops' = ops + 1
  /\ UNCHANGED <<snapshot, optimize, aborted, script, driver_vars>>

ApiIsValid ==
  /\ Free
  /\ calls' = Append(calls, Call("board_is_valid", 0, 0, 0, board_is_valid(snapshot, board)))
  /\ prev' = board
  /\ ops' = ops + 1
  /\ UNCHANGED <<snapshot, optimize, board, aborted, script, driver_vars>>

\* board_can_place_value ("board", "part") / board_meta_can_set ("main", "header")
ApiCanPlace ==
  /\ Free
  /\ \E c \in ProbeCells, value \in ProbeValues :
        calls' = Append(calls, Call("can_place", c[1], c[2], value,
                     can_place(snapshot, board, c[1], c[2], value)))
  /\ prev' = board
  /\ ops' = ops + 1
  /\ UNCHANGED <<snapshot, optimize, board, aborted, script, driver_vars>>

NextBoard ==
  \/ ApiSetup
  \/ ApiPlace
  \/ ApiSet
  \/ ApiMark
  \/ ApiUnmark
  \/ ApiUpdateAllMarks
  \/ ApiRefreshComplexity
  \/ ApiIsValid
  \/ ApiCanPlace

SpecBoard == InitBoard /\ [][NextBoard]_vars
(* ------------------------------------------------------------------ *)
(* Spec: the program of "main" (main.c) and of "part" (part_001 on the *)
(* board code of part_000), run on a board file                        *)
(* ------------------------------------------------------------------ *)

\* A solved grid; the board files read are this grid with some characters
\* replaced.
Solved(x, y) == ((3 * (y % 3)) + (y \div 3) + x) % 9

\* print_board writes value + 1 as a digit.
value_def(value) == DigitChars[value + 2]

\* Replacements <<cell, character>>: nothing; one blank whose value is 7;
\* one blank whose value is 0; one blank whose value is 8; two blanks; a
\* duplicate in row 0; the digit 0; a character that is no definition; a
\* duplicate in row 0 and one blank.
Patches ==
  { {},
    {<<1, "1">>, <<80, " ">>},
    {<<80, " ">>},
    {<<0, " ">>},
    {<<8, " ">>},
    {<<79, " ">>, <<80, " ">>},
    {<<1, "1">>},
    {<<0, "0">>},
    {<<0, "x">>} }

FileData(patch) ==
  Array([i \in 1 .. 89 |->
           IF (i % 10) = 0 THEN "\n"
           ELSE LET c == BOARD_ELEM((i % 10) - 1, i \div 10)
                IN  IF \E p \in patch : p[1] = c
                    THEN (CHOOSE p \in patch : p[1] = c)[2]
                    ELSE value_def(Solved(ElemX(c), ElemY(c)))])

Init ==
  /\ snapshot \in {"main", "part"}
  /\ optimize \in (IF snapshot = "main" THEN BOOLEAN ELSE {FALSE})
  /\ aborted = FALSE
  /\ board = <<>> /\ prev = <<>> /\ calls = <<>> /\ script = <<>> /\ ops = 0
  /\ pc = "start"
  /\ data \in {FileData(patch) : patch \in Patches}
  /\ boards = empty_table
  /\ stack = <<>>
  /\ valid = "none"
  /\ passes = 0

root_board == boards.board_specs[0]

Top == stack[Len(stack)]

top_board == boards.board_specs[Top.depth]

Frame(depth, phase, n, ret) == [depth |-> depth, phase |-> phase, n |-> n, ret |-> ret]

SetTop(frame) == [stack EXCEPT ![Len(stack)] = frame]

\* load_board_file and the test of its result in main
Load ==
  /\ pc = "start"
  /\ pc' = IF load_board_file(data) THEN "loaded" ELSE "exit"
  /\ UNCHANGED <<snapshot, optimize, aborted, api_vars, data, boards, stack, valid, passes>>

\* "Allocate board" of main.c: boards.board_specs is passed to realloc
\* before anything is assigned to it, so the call either behaves as for NULL
\* or brings the process down.
Allocate ==
  /\ pc = "loaded" /\ snapshot = "main"
  /\ \E outcome \in {"allocated", "crashed"} :
        /\ pc' = outcome
        /\ boards' = IF outcome = "allocated" THEN tables_ensure_depth(empty_table, 0)
                                              ELSE boards
  /\ UNCHANGED <<snapshot, optimize, aborted, api_vars, data, stack, valid, passes>>

CopyToBoard ==
  /\ \/ pc = "allocated"
     \/ pc = "loaded" /\ snapshot = "part"
  /\ \E r \in {copy_to_board(snapshot, optimize, data)} :
         /\ aborted' = r.abort
         /\ pc' = IF r.abort THEN "aborted" ELSE "copied"
         /\ boards' = IF snapshot = "part"
                      THEN [board_specs |-> 0 :> r.board, max_depth |-> 0]
                      ELSE [boards EXCEPT !.board_specs[0] = r.board]
  /\ UNCHANGED <<snapshot, optimize, api_vars, data, stack, valid, passes>>

\* board_update_all_marks, print_board and the first board_is_valid of main
Validate ==
  /\ pc = "copied"
  /\ boards' = [boards EXCEPT !.board_specs[0] = board_update_all_marks(snapshot, @)]
  /\ valid' = IF board_is_valid(snapshot, boards'.board_specs[0]) THEN "valid" ELSE "invalid"
  /\ pc' = "validated"
  /\ UNCHANGED <<snapshot, optimize, aborted, api_vars, data, stack, passes>>

\* puts ("\nReducing..."); simplify (&boards, 0): no test stands before it
StartSimplify ==
  /\ pc = "validated"
  /\ stack' = <<Frame(0, "sweep", 0, TRUE)>>
  /\ pc' = "simplify"
  /\ UNCHANGED <<snapshot, optimize, aborted, api_vars, data, boards, valid, passes>>

\* One iteration of "while (board->complexity == 1)"
SweepPass ==
  /\ pc = "simplify" /\ Top.phase = "sweep" /\ top_board.complexity = 1
  /\ \E r \in {sweep_pass(snapshot, optimize, top_board)} :
         /\ boards' = [boards EXCEPT !.board_specs[Top.depth] = r.board]
         /\ aborted' = (r.status = "abort")
         /\ pc' = IF r.status = "abort" THEN "aborted" ELSE pc
         /\ stack' = IF r.status = "error"
                     THEN SetTop(Frame(Top.depth, "done", Top.n, FALSE))
                     ELSE stack
  /\ passes' = 1 - passes
  /\ UNCHANGED <<snapshot, optimize, api_vars, data, valid>>

\* The speculation block of simplify in "main" is entered when the while
\* loop is left with complexity > 1 and is not left before its loops end.
InSpeculation ==
  /\ pc = "simplify" /\ snapshot = "main"
  /\ \/ Top.phase = "spec"
     \/ Top.phase = "sweep" /\ top_board.complexity > 1

\* The next iteration of the speculation loops that calls
\* board_place_speculative: NULL goes on with the next value, a board starts
\* simplify one level deeper.
Trial ==
  /\ InSpeculation
  /\ \E n \in {next_trial(top_board, Top.n)},
        table \in {tables_ensure_depth(boards, Top.depth + 1)} :
       /\ n < TrialEnd
       /\ \E r \in {board_place_speculative(snapshot, optimize, top_board,
                                            table.board_specs[Top.depth + 1],
                                            TrialX(n), TrialY(n), TrialValue(n))} :
         /\ boards' = [table EXCEPT !.board_specs[Top.depth + 1] = r.board_duplicate]
         /\ aborted' = r.abort
         /\ pc' = IF r.abort THEN "aborted" ELSE pc
         /\ stack' = IF r.null
                     THEN SetTop(Frame(Top.depth, "spec", n + 1, TRUE))
                     ELSE Append(SetTop(Frame(Top.depth, "spec", n, TRUE)),
                                 Frame(Top.depth + 1, "sweep", 0, TRUE))
  /\ UNCHANGED <<snapshot, optimize, api_vars, data, valid, passes>>

\* The loops of simplify are through: return true.  tables_ensure_depth runs
\* in every value iteration of a simplest element, also when none of them
\* reaches board_place_speculative.
EndSimplify ==
  /\ pc = "simplify"
  /\ \/ Top.phase = "sweep" /\ top_board.complexity # 1
        /\ (snapshot = "part" \/ top_board.complexity < 1)
     \/ InSpeculation /\ next_trial(top_board, Top.n) = TrialEnd
  /\ boards' = IF InSpeculation
                  /\ \E m \in Top.n .. (TrialEnd - 1) :
                        is_simplest(top_board, TrialX(m), TrialY(m))
               THEN tables_ensure_depth(boards, Top.depth + 1)
               ELSE boards
  /\ stack' = SetTop(Frame(Top.depth, "done", Top.n, TRUE))
  /\ UNCHANGED <<snapshot, optimize, aborted, api_vars, data, pc, valid, passes>>

\* Return without "board_copy (board_spec, board)": a solved board ends the
\* loops of the caller but is not copied.
ReturnNoCopy ==
  /\ pc = "simplify" /\ Top.phase = "done"
  /\ IF Len(stack) = 1
     THEN /\ pc' = "reduced"
          /\ stack' = <<>>
     ELSE LET caller == stack[Len(stack) - 1]
              found == Top.ret /\ top_board.complexity = 0
          IN  /\ pc' = pc
              /\ stack' = [SubSeq(stack, 1, Len(stack) - 1) EXCEPT ![Len(stack) - 1] =
                             Frame(caller.depth, "spec",
                                   IF found THEN TrialEnd ELSE caller.n + 1, TRUE)]
  /\ UNCHANGED <<snapshot, optimize, aborted, api_vars, data, boards, valid, passes>>

\* Return with the copy made for every board that comes back, solved or not.
ReturnCopyAlways ==
  /\ pc = "simplify" /\ Top.phase = "done"
  /\ IF Len(stack) = 1
     THEN /\ pc' = "reduced"
          /\ stack' = <<>>
          /\ boards' = boards
     ELSE LET caller == stack[Len(stack) - 1]
              found == Top.ret /\ top_board.complexity = 0
          IN  /\ pc' = pc
              /\ boards' = [boards EXCEPT !.board_specs[caller.depth] = board_copy(top_board)]
              /\ stack' = [SubSeq(stack, 1, Len(stack) - 1) EXCEPT ![Len(stack) - 1] =
                             Frame(caller.depth, "spec",
                                   IF found THEN TrialEnd ELSE caller.n + 1, TRUE)]
  /\ UNCHANGED <<snapshot, optimize, aborted, api_vars, data, valid, passes>>

\* simplify returns: to main, or to the trial that called it ("Found
\* solution" copies the deeper board and ends the loops).
Return ==
  /\ pc = "simplify" /\ Top.phase = "done"
  /\ IF Len(stack) = 1
     THEN /\ pc' = "reduced"
          /\ stack' = <<>>
          /\ boards' = boards
     ELSE LET caller == stack[Len(stack) - 1]
              found == Top.ret /\ top_board.complexity = 0
          IN  /\ pc' = pc
              /\ boards' = IF found
                           THEN [boards EXCEPT !.board_specs[caller.depth] =
                                                  board_copy(top_board)]
                           ELSE boards
              /\ stack' = [SubSeq(stack, 1, Len(stack) - 1) EXCEPT ![Len(stack) - 1] =
                             Frame(caller.depth, "spec",
                                   IF found THEN TrialEnd ELSE caller.n + 1, TRUE)]
  /\ UNCHANGED <<snapshot, optimize, aborted, api_vars, data, valid, passes>>

\* print_board and the second board_is_valid of main
Finish ==
  /\ pc = "reduced"
  /\ valid' = IF board_is_valid(snapshot, root_board) THEN "valid" ELSE "invalid"
  /\ pc' = "done"
  /\ UNCHANGED <<snapshot, optimize, aborted, api_vars, data, boards, stack, passes>>

Next ==
  \/ Load
  \/ Allocate
  \/ CopyToBoard
  \/ Validate
  \/ StartSimplify
  \/ SweepPass
  \/ Trial
  \/ EndSimplify
  \/ Return
  \/ Finish

Spec == Init /\ [][Next]_vars

\* The process runs on while it can take a step.
SpecFair == Spec /\ WF_vars(Next)

\* Scenario A: main of main.c run on the board file of the empty grid.
EmptyData == Array([i \in 1 .. 89 |-> IF (i % 10) = 0 THEN "\n" ELSE " "])

InitEmpty ==
  /\ snapshot = "main"
  /\ optimize \in BOOLEAN
  /\ aborted = FALSE
  /\ board = <<>> /\ prev = <<>> /\ calls = <<>> /\ script = <<>> /\ ops = 0
  /\ pc = "start"
  /\ data = EmptyData
  /\ boards = empty_table
  /\ stack = <<>>
  /\ valid = "none"
  /\ passes = 0

SpecEmpty == InitEmpty /\ [][Next]_vars /\ WF_vars(Next)

\* A board file on which the search of main.c runs into failed trials: the
\* solved grid with every cell blank but (0,0), (5,3), (7,4) and (4,5).
SparseGivens == {0, 32, 43, 49}

SparseData == FileData({<<c, " ">> : c \in Cells \ SparseGivens})

InitSearch ==
  /\ snapshot = "main"
  /\ optimize \in BOOLEAN
  /\ aborted = FALSE
  /\ board = <<>> /\ prev = <<>> /\ calls = <<>> /\ script = <<>> /\ ops = 0
  /\ pc = "start"
  /\ data = SparseData
  /\ boards = empty_table
  /\ stack = <<>>
  /\ valid = "none"
  /\ passes = 0

SpecSearch == InitSearch /\ [][Next]_vars

(* ------------------------------------------------------------------ *)
(* Properties                                                          *)
(* ------------------------------------------------------------------ *)

\* The cells of the row, the column and the 3x3 block of (x, y).
Region(x, y) ==
  {i \in Cells : \/ ElemY(i) = y
                 \/ ElemX(i) = x
                 \/ BOARD_QUAD(ElemX(i), ElemY(i)) = BOARD_QUAD(x, y)}

Peers(x, y) == Region(x, y) \ {BOARD_ELEM(x, y)}

Decided(b) == {i \in Cells : b.elements[i].has_value}

Unset(b) == {i \in Cells : ~ b.elements[i].has_value}

\* A decided cell of the region of (x, y) holds value.
HeldInRegion(b, x, y, value) ==
  \E i \in Region(x, y) : b.elements[i].has_value /\ b.elements[i].value = value

\* No two cells that share a row, a column or a block hold the same
\* decided value.
NoDuplicates(b) ==
  \A i \in Decided(b) :
     \A j \in Peers(ElemX(i), ElemY(i)) :
        ~ (b.elements[j].has_value /\ b.elements[j].value = b.elements[i].value)

\* Every call made since board_init is one of the operations in allowed.
OnlyCalls(allowed) == \A k \in 2 .. Len(calls) : calls[k].op \in allowed

\* The placed set of every row, column and block is full.
AllPlacedFull(b) ==
  \A r \in 0 .. 8 :
     b.meta_row[r] = Values /\ b.meta_col[r] = Values /\ b.meta_quad[r] = Values

\* The placed set of every region holds exactly the values of the decided
\* cells of the region.
PlacedExact(b) ==
  /\ \A y \in Coords : b.meta_row[y] = board_meta_row_refresh(b, y)
  /\ \A x \in Coords : b.meta_col[x] = board_meta_col_refresh(b, x)
  /\ \A qx \in 0 .. 2, qy \in 0 .. 2 :
        b.meta_quad[BOARD_QUAD(qx * 3, qy * 3)] = board_meta_quad_refresh(b, qx, qy)

\* C1 (Soundness): when the solve started by main of main.c (copy_to_board,
\* then simplify at depth 0) leaves the root board with complexity 0, every
\* row, column and block has a full placed set and no two cells of a shared
\* region hold the same decided value.
C1_Soundness ==
  (snapshot = "main" /\ pc \in {"reduced", "done"} /\ root_board.complexity = 0)
    => (AllPlacedFull(root_board) /\ NoDuplicates(root_board))

\* C2: after any sequence of board_place calls from board_init (board.c,
\* main.c) no two cells of the same row, column or block hold the same
\* decided value.
C2_PlaceKeepsRegionsDistinct ==
  (snapshot \in {"board", "main"} /\ ~ aborted /\ OnlyCalls({"board_place"}))
    => NoDuplicates(board)

\* C3: when board_place(x, y, value) of board.c returns true, no unset cell
\* of the row, the column or the block of (x, y) has value as a candidate,
\* block peers outside row and column included, after the refresh.
C3_PlaceUnmarksPeers ==
  (snapshot = "board" /\ ~ aborted /\ call.op = "board_place" /\ call.ret)
    => \A i \in Peers(call.x, call.y) :
          board.elements[i].has_value \/ call.value \notin board.elements[i].potential

\* C4 (Conservation): in every state reached through board_init, board_mark,
\* board_unmark, board_place and board_update_all_marks (board.c, part_000)
\* the cached complexity of every unset cell is the number of its candidates.
C4_ComplexityIsPopcount ==
  ( /\ snapshot \in {"board", "part"} /\ ~ aborted
    /\ OnlyCalls({"board_mark", "board_unmark", "board_place", "board_update_all_marks"}) )
    => \A i \in Unset(board) :
          board.elements[i].complexity = Cardinality(board.elements[i].potential)

\* C5: in every state reached through board_init, board_set and board_place
\* of main.c, the placed bit V of a region is set iff a cell of the region is
\* decided with V: board_set marks the placed bits, and the placed sets are
\* what the refresh functions would recompute.
C5_PlacedSetsExact ==
  (snapshot = "main" /\ ~ aborted /\ OnlyCalls({"board_set", "board_place"}))
    => PlacedExact(board)

\* C6: canPlace(x, y, value) (board.c, main.c) is true iff no decided cell of
\* the row, the column or the block of (x, y) holds value; asked here of
\* cells (x, y) that are themselves unset.
C6_CanPlaceIffNotHeld ==
  ( /\ snapshot \in {"board", "main"} /\ call.op = "can_place"
    /\ ~ board_has_value(board, call.x, call.y) )
    => (call.ret <=> ~ HeldInRegion(board, call.x, call.y, call.value))

\* C7: board_place(x, y, value) (main.c, board.c) called on an unset cell
\* when value is already placed in a region of (x, y) returns false and
\* leaves the whole board unchanged.
C7_RefusedPlaceLeavesBoard ==
  ( /\ snapshot \in {"board", "main"} /\ ~ aborted /\ call.op = "board_place"
    /\ ~ board_has_value(prev, call.x, call.y)
    /\ HeldInRegion(prev, call.x, call.y, call.value) )
    => (~ call.ret /\ board = prev)

\* C8: board_is_valid (main.c, board.c) is true iff no decided cell shares a
\* row, column or block with another decided cell of the same value.
C8_IsValidIffNoConflict ==
  (snapshot \in {"board", "main"} /\ call.op = "board_is_valid")
    => (call.ret <=> NoDuplicates(board))

\* C9: simplify never runs after board_is_valid returned false in main.
C9_InvalidBoardNotSearched ==
  pc = "simplify" => valid # "invalid"

\* C10: board_refresh_complexity (main.c, board.h) returns false whenever an
\* unset cell has complexity 0, wherever the scan meets it, and with no
\* unset cell left it sets the board complexity to 0 and returns true.
C10_RefreshReportsContradiction ==
  ( /\ snapshot \in {"main", "header"} /\ ~ aborted
    /\ call.op = "board_refresh_complexity" )
    => /\ (\E i \in Unset(board) : board.elements[i].complexity = 0) => ~ call.ret
       /\ Unset(board) = {} => (board.complexity = 0 /\ call.ret)

\* The least complexity of the unset cells of b (10 if there is none).
MinUnsetComplexity(b) ==
  IF Unset(b) = {} THEN 10
  ELSE CHOOSE c \in {b.elements[i].complexity : i \in Unset(b)} :
         \A i \in Unset(b) : c <= b.elements[i].complexity

\* C11: after board_refresh_complexity returns (main.c, board.c), the
\* complexity of the board is a value outside 0..9 if some unset cell has no
\* candidate, else 0 if every cell is decided, else the least complexity of
\* the unset cells.
C11_RefreshComplexityScalar ==
  ( /\ snapshot \in {"main", "board"} /\ ~ aborted
    /\ call.op = "board_refresh_complexity" )
    => IF \E i \in Unset(board) : board.elements[i].potential = {}
       THEN board.complexity \notin 0 .. 9
       ELSE IF Unset(board) = {} THEN board.complexity = 0
       ELSE board.complexity = MinUnsetComplexity(board)

\* Index in the board file of the character that defines cell i.
DataIndex(i) == (ElemY(i) * 10) + ElemX(i) + 1

\* Every cell decided in b is decided with the same value in c.
Extends(c, b) ==
  \A i \in Decided(b) : c.elements[i].has_value /\ c.elements[i].value = b.elements[i].value

\* C12: from copy_to_board on, through every trial and copy-back of simplify
\* and after it, every cell that the loaded grid decides is decided with the
\* same value in the root board of main.c.
C12_SolveKeepsGivens ==
  (snapshot = "main" /\ pc \in {"copied", "validated", "simplify", "reduced", "done"})
    => \E loaded \in {copy_to_board(snapshot, optimize, data).board} :
          Extends(root_board, loaded)

\* simplify has returned to main after a trial was copied back: the root
\* board decides a cell that the board file leaves blank.
C12_Witness ==
  /\ snapshot = "main" /\ pc = "reduced"
  /\ \E i \in Decided(root_board) : data[DataIndex(i)] = " "

\* C13: simplify at depth 0, once called by main (main.c, part_001), comes
\* to its end: the while loop and the speculation do not run forever.
C13_SimplifyTerminates == (pc = "simplify") ~> (pc # "simplify")

\* Every cell of the board file is defined by a digit 1..9 or by a space.
WellFormed(d) ==
  \A i \in Cells : d[DataIndex(i)] = " " \/ \E k \in 2 .. 10 : DigitChars[k] = d[DataIndex(i)]

Blanks(d) == {i \in Cells : d[DataIndex(i)] = " "}

\* The blanks of the board file can be filled so that no two cells of a row,
\* a column or a block hold the same value.
HasCompletion(d) ==
  \E f \in [Blanks(d) -> Values] :
     LET v(i) == IF i \in Blanks(d) THEN f[i] ELSE def_value(d[DataIndex(i)])
     IN  \A i \in Cells : \A j \in Peers(ElemX(i), ElemY(i)) : v(i) # v(j)

\* C14: simplify of main.c returns failure when the candidates of the chosen
\* cell are used up; so when the grid of the board file has no valid
\* completion, the value simplify returns to main at depth 0 is false.
C14_NoCompletionFails ==
  ( /\ snapshot = "main" /\ pc = "simplify"
    /\ Len(stack) = 1 /\ Top.phase = "done"
    /\ WellFormed(data) /\ ~ HasCompletion(data) )
    => ~ Top.ret

\* C15: on a board file whose cells are digits 1..9 and spaces, no step of
\* the solve (copy_to_board, board_update_all_marks, simplify) reaches ERROR,
\* the failing ASSERT of board_set or the abort of first_potential_value.
C15_NoAbort == WellFormed(data) => ~ aborted

\* The board file is a grid with exactly one empty cell, and one value fits
\* that cell.
OneForcedCell(d) == WellFormed(d) /\ Cardinality(Blanks(d)) = 1 /\ HasCompletion(d)

\* No frame of simplify has reached a call of board_place_speculative, and
\* the board of depth 1 is as malloc left it.
NoSpeculation ==
  /\ \A k \in 1 .. Len(stack) :
        stack[k].depth = 0 /\ stack[k].phase # "spec" /\ stack[k].n = 0
  /\ 1 \in DOMAIN boards.board_specs => boards.board_specs[1] = malloc_board

\* C16 (Scenario C): on a grid with exactly one empty cell whose value is
\* forced, the solve of main.c never calls board_place_speculative and
\* writes no frame of depth >= 1, and simplify leaves the root board fully
\* decided with complexity 0.
C16_ForcedCellNoSpeculation ==
  (snapshot = "main" /\ OneForcedCell(data))
    => /\ NoSpeculation
       /\ pc \in {"reduced", "done"}
            => (root_board.complexity = 0 /\ Unset(root_board) = {})

\* C17 (Scenario A): from the empty grid, simplify at depth 0 of main.c comes
\* to its end with the root board fully decided, of complexity 0, and with
\* no value twice in a row, a column or a block.
C17_EmptyGridSolved ==
  (pc = "start")
    ~> ( /\ pc = "reduced"
         /\ root_board.complexity = 0 /\ Unset(root_board) = {}
         /\ NoDuplicates(root_board) )

\* The positions of main.
PcValues ==
  {"start", "loaded", "exit", "allocated", "crashed", "aborted", "copied",
   "validated", "simplify", "reduced", "done"}

\* C18 (determinism): two runs of main.c on the same board file go through
\* the same sequence of steps: whatever memory main and tables_ensure_depth
\* find in fresh or reused frames, a state of the run has no two next steps
\* that lead to different positions.
C18_Deterministic ==
  snapshot = "main"
    => \A p \in PcValues, q \in PcValues :
          (ENABLED (Next /\ pc' = p) /\ ENABLED (Next /\ pc' = q)) => p = q

\* Every unset cell of b has the candidate set and the complexity it has in c.
SameMarks(b, c) ==
  \A i \in Unset(b) :
     /\ b.elements[i].potential = c.elements[i].potential
     /\ b.elements[i].complexity = c.elements[i].complexity

\* C19 (idempotence): when board_update_all_marks has just run, a second
\* board_update_all_marks on its result leaves every unset cell with the
\* candidate set and the complexity it has.
C19_UpdateAllMarksIdempotent ==
  (~ aborted /\ call.op = "board_update_all_marks")
    => SameMarks(board_update_all_marks(snapshot, board), board)

\* board_update_all_marks of board.c has run after the set-up ScriptPointing
\* and its do ... while loop has changed a candidate set.
C19_Witness ==
  /\ snapshot = "board" /\ ~ aborted
  /\ call.op = "board_update_all_marks"
  /\ Len(calls) = Len(ScriptPointing) + 2
  /\ \E i \in Unset(board) :
        board.elements[i].potential # update_marks_loop(snapshot, prev).elements[i].potential

\* C20: copy_to_board of main.c turns every board file load_board_file
\* accepts (digits 0..9 and spaces) into a board whose decided cells hold
\* values 0..8, and does not run into ERROR or abort on the way.
C20_CopyInRange ==
  snapshot = "main"
    => /\ pc = "copied" => \A i \in Decided(root_board) : root_board.elements[i].value \in Values
       /\ ~ (pc = "aborted" /\ valid = "none")

\* No unset cell of c has a candidate it does not have in b.
Shrinks(b, c) ==
  \A i \in Unset(b) : c.elements[i].potential \subseteq b.elements[i].potential

\* Most cycles of the do ... while loop that remove a candidate: 81 cells
\* of 9 candidates.
MaxCycles == 729

\* The boards left by the passes of the do ... while loop of
\* board_update_all_marks (board.c) started on b, in order: after the
\* exclusion pass and after the quad pass of each cycle, for at most n cycles.
RECURSIVE pass_boards(_, _)
pass_boards(b, n) ==
  IF n = 0 THEN <<>>
  ELSE Strict(LAMBDA e :
         Strict(LAMBDA q :
                  <<e.board, q.board>>
                    \o (IF q.changed THEN pass_boards(q.board, n - 1) ELSE <<>>),
                quad_pass(e.board, e.changed)),
         excl_pass(b))

\* C21: inside board_update_all_marks of board.c, after the first loop, the
\* exclusion pass and the quad pass of every cycle only take candidates away
\* from unset cells, and the loop ends: within MaxCycles cycles a cycle
\* changes nothing, and its board is the one the call leaves.
C21_PassesOnlyRemove ==
  (snapshot = "board" /\ ~ aborted /\ call.op = "board_update_all_marks")
    => \E first \in {update_marks_loop(snapshot, prev)} :
         \E t \in {pass_boards(first, MaxCycles)} :
           /\ Shrinks(first, t[1])
           /\ \A k \in 1 .. Len(t) - 1 : Shrinks(t[k], t[k + 1])
           /\ Len(t) < 2 * MaxCycles
           /\ t[Len(t)] = board

\* board_update_all_marks of board.c has run and the quad pass of one of
\* its cycles has changed a candidate set.
C21_Witness ==
  /\ snapshot = "board" /\ ~ aborted /\ call.op = "board_update_all_marks"
  /\ \E t \in {pass_boards(update_marks_loop(snapshot, prev), MaxCycles)} :
        \E k \in 1 .. Len(t) - 1 : (k % 2) = 1 /\ t[k + 1] # t[k]

\* The values b holds in decided cells of the row, the column or the block
\* of cell i.
RegionValues(b, i) ==
  {b.elements[j].value : j \in {k \in Region(ElemX(i), ElemY(i)) : b.elements[k].has_value}}

\* C22: the first loop of board_update_all_marks leaves every unset cell with
\* exactly the values decided nowhere in its row, column and block as
\* candidates, and with the number of those values (all nine counted) as
\* complexity.
C22_FirstLoopExact ==
  (~ aborted /\ call.op = "board_update_all_marks")
    => \E first \in {update_marks_loop(snapshot, prev)} :
          \A i \in Unset(prev) :
             /\ first.elements[i].potential = Values \ RegionValues(prev, i)
             /\ first.elements[i].complexity = Cardinality(Values \ RegionValues(prev, i))

\* The 27 regions: rows, columns and blocks, each as a set of cells.
Regions ==
  {{i \in Cells : ElemY(i) = r} : r \in Coords}
    \cup {{i \in Cells : ElemX(i) = r} : r \in Coords}
    \cup {{i \in Cells : BOARD_QUAD(ElemX(i), ElemY(i)) = r} : r \in 0 .. 8}

\* The unset cells of region R of b that have value as a candidate.
Admitting(b, R, value) ==
  {i \in R : ~ b.elements[i].has_value /\ value \in b.elements[i].potential}

\* C23: when board_update_all_marks (main.c, board.c) returns, in every row,
\* column and block, a value not decided there that exactly one unset cell
\* of the region admits is the only candidate of that cell, with complexity 1.
C23_SingleCellForced ==
  (snapshot \in {"main", "board"} /\ ~ aborted /\ call.op = "board_update_all_marks")
    => \A R \in Regions, value \in Values :
          ( /\ \A j \in R : ~ (board.elements[j].has_value /\ board.elements[j].value = value)
            /\ Cardinality(Admitting(board, R, value)) = 1 )
            => \A i \in Admitting(board, R, value) :
                  /\ board.elements[i].potential = {value}
                  /\ board.elements[i].complexity = 1

\* 1 if value is a candidate of cell i of b, else 0.
Held(b, i, value) == IF value \in b.elements[i].potential THEN 1 ELSE 0

\* C24: board_place(x, y, value) of board.h that places the value leaves
\* every unset peer of (x, y) with its complexity lowered by 1 if the value
\* was a candidate of the peer before the call and unchanged otherwise, also
\* for the peers that the row or column loop and the quad loop both visit;
\* board_unmark of a value that is no candidate of an unset cell changes
\* nothing.
C24_UnmarkOnce ==
  (snapshot = "header" /\ ~ aborted)
    => /\ (call.op = "board_place" /\ call.ret)
            => \A i \in Peers(call.x, call.y) \cap Unset(prev) :
                  /\ board.elements[i].complexity
                        = prev.elements[i].complexity - Held(prev, i, call.value)
                  /\ board.elements[i].potential = prev.elements[i].potential \ {call.value}
       /\ ( /\ call.op = "board_unmark"
             /\ ~ prev.elements[BOARD_ELEM(call.x, call.y)].has_value
             /\ call.value \notin prev.elements[BOARD_ELEM(call.x, call.y)].potential )
            => board = prev

\* board_place of board.h has placed a value whose cell has an unset peer in
\* its row and block that had the value as a candidate and another unset
\* peer that had not.
C24_Witness ==
  /\ snapshot = "header" /\ ~ aborted /\ call.op = "board_place" /\ call.ret
  /\ \E i \in Peers(call.x, call.y) \cap Unset(prev) :
        /\ ElemY(i) = call.y
        /\ BOARD_QUAD(ElemX(i), ElemY(i)) = BOARD_QUAD(call.x, call.y)
        /\ call.value \in prev.elements[i].potential
  /\ \E i \in Peers(call.x, call.y) \cap Unset(prev) :
        call.value \notin prev.elements[i].potential

\* C25: in simplify of main.c, once the trial of a value at a simplest cell
\* has failed (board_place_speculative returned NULL, or the simplify one
\* level deeper came back without a solved board), the value is no longer a
\* candidate of that cell on the board of the frame when the loops go on.
C25_FailedTrialRemoved ==
  (snapshot = "main" /\ ~ aborted)
    => \A k \in 1 .. Len(stack) :
          (stack[k].phase = "spec" /\ stack[k].n < TrialEnd)
            => \A m \in 0 .. stack[k].n - 1 :
                  ~ is_trial(boards.board_specs[stack[k].depth], m)

\* C26: while simplify of main.c runs, a step changes no board of a depth
\* below the running frame, and the step that calls board_place_speculative
\* does not change the board of the running frame either; the one exception
\* is the return of a simplify that leaves a solved board (complexity 0),
\* which is copied to the board one level up.
C26_TrialKeepsParents ==
  [][ (snapshot = "main" /\ pc = "simplify")
        => \A d \in DOMAIN boards.board_specs :
              boards'.board_specs[d] # boards.board_specs[d]
                => \/ d > Top.depth
                   \/ d = Top.depth /\ ~ Trial
                   \/ /\ d = Top.depth - 1 /\ Top.phase = "done"
                      /\ Top.ret /\ top_board.complexity = 0
                      /\ boards'.board_specs[d] = top_board ]_vars

\* A simplify of depth >= 1 has come to its end with a board that is not
\* solved: the trial that started it has failed.
C26_Witness ==
  /\ snapshot = "main" /\ pc = "simplify" /\ ~ aborted
  /\ Len(stack) > 1 /\ Top.phase = "done" /\ top_board.complexity # 0

\* C27 (first solution wins): when a simplify of depth d + 1 of main.c
\* returns true with its board at complexity 0, the step gives the board of
\* depth d the same contents and leaves the frame of depth d with no
\* iteration that reaches board_place_speculative; and no frame whose board
\* has complexity 0 makes a trial.
C27_FirstSolutionWins ==
  [][ /\ ( /\ snapshot = "main" /\ pc = "simplify" /\ Len(stack) > 1
           /\ Top.phase = "done" /\ Top.ret /\ top_board.complexity = 0 )
          => /\ Len(stack') = Len(stack) - 1
             /\ boards'.board_specs[Top.depth - 1] = top_board
             /\ next_trial(boards'.board_specs[Top.depth - 1], stack'[Len(stack')].n)
                  = TrialEnd
      /\ Trial => top_board.complexity # 0 ]_vars

\* A board has been copied back: the frame on top of the stack is through
\* with its loops and its board is fully decided with complexity 0.
C27_Witness ==
  /\ snapshot = "main" /\ pc = "simplify" /\ ~ aborted
  /\ Len(stack) >= 1 /\ Top.phase = "spec" /\ Top.n = TrialEnd
  /\ top_board.complexity = 0 /\ Unset(top_board) = {}

\* Some unset cell of b has no candidate.
Contradiction(b) == \E i \in Unset(b) : b.elements[i].potential = {}

\* C28: when a pass of the complexity-1 sweep of simplify (main.c) starts on
\* a board where every unset cell has a candidate and its placements leave
\* an unset cell with none, simplify ends the frame there with failure: the
\* frame is done and its return value is false.
C28_SweepContradictionFails ==
  [][ ( /\ snapshot = "main" /\ SweepPass /\ ~ aborted'
        /\ ~ Contradiction(top_board)
        /\ Contradiction(boards'.board_specs[Top.depth]) )
        => ( /\ stack'[Len(stack')].phase = "done"
             /\ ~ stack'[Len(stack')].ret ) ]_vars

\* C29: while simplify of main.c runs at depth d, the table has a board at
\* every index below max_depth and tables_ensure_depth (depth d + 1) leaves
\* d + 1 below max_depth, does not lower max_depth and keeps every board
\* already allocated; a step never lowers max_depth, and the step that calls
\* board_place_speculative writes at an index below max_depth.
C29_FramesAllocated ==
  [][ (snapshot = "main" /\ pc = "simplify")
        => /\ DOMAIN boards.board_specs = 0 .. boards.max_depth - 1
           /\ Top.depth < boards.max_depth
           /\ \E table \in {tables_ensure_depth(boards, Top.depth + 1)} :
                 /\ Top.depth + 1 < table.max_depth
                 /\ table.max_depth >= boards.max_depth
                 /\ DOMAIN table.board_specs = 0 .. table.max_depth - 1
                 /\ \A l \in 0 .. boards.max_depth - 1 :
                       table.board_specs[l] = boards.board_specs[l]
           /\ boards'.max_depth >= boards.max_depth
           /\ Trial => Top.depth + 1 < boards'.max_depth ]_vars

\* The search is deeper than the first allocation: the table has grown.
C29_Witness ==
  /\ snapshot = "main" /\ pc = "simplify" /\ ~ aborted
  /\ Len(stack) > DEFAULT_DEPTH + DEPTH_INCREMENT
  /\ boards.max_depth > DEFAULT_DEPTH + DEPTH_INCREMENT
  /\ boards.board_specs[Top.depth] # malloc_board

\* Three solved grids, cell BOARD_ELEM(x, y) at index BOARD_ELEM(x, y) + 1: one
\* that holds the placements of ScriptPointing, one that holds those of
\* ScriptHidden, and one with 4 at (1,0).
SolutionPointing ==
  << 8, 0, 1, 3, 4, 5, 2, 6, 7,
     2, 3, 5, 6, 7, 8, 4, 0, 1,
     4, 6, 7, 0, 1, 2, 3, 5, 8,
     0, 5, 2, 8, 3, 1, 6, 7, 4,
     1, 4, 6, 7, 2, 0, 5, 8, 3,
     3, 7, 8, 4, 5, 6, 0, 1, 2,
     5, 2, 0, 1, 8, 3, 7, 4, 6,
     6, 1, 4, 2, 0, 7, 8, 3, 5,
     7, 8, 3, 5, 6, 4, 1, 2, 0 >>

SolutionHidden ==
  << 4, 0, 1, 2, 3, 5, 6, 7, 8,
     6, 8, 7, 4, 0, 1, 2, 3, 5,
     2, 3, 5, 6, 7, 8, 4, 0, 1,
     1, 4, 0, 5, 6, 2, 7, 8, 3,
     5, 2, 8, 7, 1, 3, 0, 4, 6,
     3, 7, 6, 8, 4, 0, 1, 5, 2,
     8, 1, 4, 0, 5, 6, 3, 2, 7,
     0, 5, 3, 1, 2, 7, 8, 6, 4,
     7, 6, 2, 3, 8, 4, 5, 1, 0 >>

SolutionPlain ==
  << 0, 4, 1, 2, 3, 5, 6, 7, 8,
     2, 3, 5, 6, 7, 8, 0, 1, 4,
     6, 7, 8, 0, 1, 4, 2, 3, 5,
     1, 0, 4, 5, 6, 2, 7, 8, 3,
     7, 6, 3, 8, 0, 1, 4, 5, 2,
     5, 8, 2, 3, 4, 7, 1, 0, 6,
     3, 1, 6, 4, 8, 0, 5, 2, 7,
     4, 2, 0, 7, 5, 3, 8, 6, 1,
     8, 5, 7, 1, 2, 6, 3, 4, 0 >>

Solutions == {SolutionPointing, SolutionHidden, SolutionPlain}

\* S is a full grid with no value twice in a row, a column or a block.
IsSolution(S) ==
  \A i \in Cells :
     S[i + 1] \in Values /\ \A j \in Peers(ElemX(i), ElemY(i)) : S[j + 1] # S[i + 1]

\* Every decided cell of b holds the value S gives it.
Agrees(b, S) == \A i \in Decided(b) : b.elements[i].value = S[i + 1]

\* Every unset cell of b has the value S gives it as a candidate.
Keeps(b, S) == \A i \in Unset(b) : S[i + 1] \in b.elements[i].potential

\* C30 (propagation is sound): when the decided cells of a board agree with
\* a solved grid S, board_update_all_marks of board.c leaves the value of S
\* among the candidates of every unset cell after its first loop, after the
\* exclusion pass and the quad pass of every cycle, and when it returns.
C30_PropagationSound ==
  (snapshot = "board" /\ ~ aborted /\ call.op = "board_update_all_marks")
    => \A S \in Solutions :
          (IsSolution(S) /\ Agrees(prev, S))
            => \E first \in {update_marks_loop(snapshot, prev)} :
                 \E t \in {pass_boards(first, MaxCycles)} :
                    /\ Keeps(first, S)
                    /\ \A k \in 1 .. Len(t) : Keeps(t[k], S)
                    /\ Keeps(board, S)

\* board_update_all_marks of board.c has run on a board with decided cells
\* that agrees with one of the solved grids, and its passes have taken
\* candidates away.
C30_Witness ==
  /\ snapshot = "board" /\ ~ aborted /\ call.op = "board_update_all_marks"
  /\ Decided(prev) # {}
  /\ \E S \in Solutions : IsSolution(S) /\ Agrees(prev, S)
  /\ \E i \in Unset(board) :
        board.elements[i].potential # update_marks_loop(snapshot, prev).elements[i].potential
====
